---- MODULE Spec2Model ----
(***************************************************************************)
(* Quantum / QuantumSet (dylon/Quantum).  The model follows the newest     *)
(* copy of the library, src/unnamed/part_001; the two older copies         *)
(* (src/unnamed/part_000, src/quantum.js) appear only where a definition   *)
(* says so.                                                                *)
(*                                                                         *)
(* Arrays are JavaScript objects with identity.  _set is the content of    *)
(* the array the QuantumSet holds; op, arg and ret are the caller's last   *)
(* call, its argument and the value it returned; aliased says that the     *)
(* returned value is the backing array itself, not a copy; pre is the      *)
(* content of the backing array when the last call began; thrown says that *)
(* the last call ended with an exception instead of a value.  locals is    *)
(* the activation of a disjoint call that is run one loop iteration at a   *)
(* time.                                                                   *)
(*                                                                         *)
(* Array.prototype.sort is host code.  QuantumSet.monotonic hands it a     *)
(* comparator that returns a boolean, which ECMAScript calls an            *)
(* inconsistent comparison function: the resulting order is                *)
(* implementation-defined.  engine is the host the program runs on,        *)
(* chosen once, and HostSort is what that host's sort does for arrays of   *)
(* the lengths modelled here.                                              *)
(***************************************************************************)
EXTENDS Integers, Sequences, FiniteSets

VARIABLES _set, ret, aliased, op, arg, pre, thrown, locals, engine

vars == <<_set, ret, aliased, op, arg, pre, thrown, locals, engine>>

-----------------------------------------------------------------------------
(* Bounds *)

\* instants are 0 .. MaxTime
MaxTime == 2
\* longest backing array
MaxLen == 3
\* longest array handed to push in one call
MaxPush == 2

-----------------------------------------------------------------------------
(* Quantum *)

\* function Quantum( start, stop ): start || 0 and stop || 0 are the
\* identity on numbers (0 || 0 is 0)
Quantum(start, stop) == [start |-> start, stop |-> stop]

Time == 0..MaxTime

\* every Quantum a caller can construct over Time, start > stop included
AnyQuanta == {Quantum(a, b) : a \in Time, b \in Time}

WellFormed(q) == q.start <= q.stop

Quanta == {q \in AnyQuanta : WellFormed(q)}

\* what reading past the end of an array yields, and what a call without a
\* return statement returns
Undefined == [undefined |-> TRUE]

MIN(a, b) == IF a <= b THEN a ELSE b

MAX(a, b) == IF a >= b THEN a ELSE b

\* arrays of 0 .. n elements of S
RECURSIVE Arrays(_, _)
Arrays(S, n) ==
    IF n = 0 THEN {<<>>}
    ELSE LET shorter == Arrays(S, n - 1)
         IN  shorter \cup {Append(a, q) : a \in {b \in shorter : Len(b) = n - 1}, q \in S}

-----------------------------------------------------------------------------
(* QuantumSet: pure methods *)

\* a compare that is false for equal starts
compareStrict(q1, q2) == q1.start > q2.start

\* QuantumSet.prototype.compare
compare(q1, q2) == q1.start >= q2.start

\* intersects that tests one direction only
intersectsOneSided(q1, q2) == (q1.start <= q2.start) /\ (q1.stop >= q2.start)

\* intersects on half-open intervals: touching ends do not count
intersectsHalfOpen(q1, q2) ==
    ((q1.start <= q2.start) /\ (q1.stop > q2.start)) \/
    ((q2.start <= q1.start) /\ (q2.stop > q1.start))

\* QuantumSet.prototype.intersects
intersects(q1, q2) ==
    LET q1a == q1.start
        q1B == q1.stop
        q2a == q2.start
        q2B == q2.stop
    IN  ((q1a <= q2a) /\ (q1B >= q2a)) \/ ((q2a <= q1a) /\ (q2B >= q1a))

\* merge that takes the start of its first argument
mergeFirstStart(q1, q2) ==
    IF intersects(q1, q2)
    THEN <<Quantum(q1.start, MAX(q1.stop, q2.stop))>>
    ELSE <<q1, q2>>

\* QuantumSet.prototype.merge
merge(q1, q2) ==
    IF intersects(q1, q2)
    THEN LET a == MIN(q1.start, q2.start)
             B == MAX(q1.stop, q2.stop)
         IN  <<Quantum(a, B)>>
    ELSE <<q1, q2>>

-----------------------------------------------------------------------------
(* Array.prototype.sort as the host runs it *)

\* ToNumber applied to the value a comparator returns
ToNumber(b) == IF b THEN 1 ELSE 0

\* the comparators a caller passes to monotonic: none (this.compare is
\* used, a boolean predicate), or a numeric three-way comparator on start
Comparators == {"default", "ascending", "descending"}

\* the number the host sort sees for the call comparefn( x, y )
comparefn(c, x, y) ==
    CASE c = "default"    -> ToNumber(compare(x, y))
      [] c = "ascending"  -> x.start - y.start
      [] c = "descending" -> y.start - x.start

\* a with the element at position from moved down to position to (to <= from),
\* the elements between shifted up by one
MoveDown(a, from, to) ==
    [k \in 1..Len(a) |->
        IF k < to \/ k > from THEN a[k]
        ELSE IF k = to THEN a[from]
        ELSE a[k - 1]]

\* inner loop of the insertion sort: the position where element, taken from
\* position j + 1, ends up; tmp = a[j] moves up while comparefn( tmp, element ) > 0
RECURSIVE InsertionPoint(_, _, _, _)
InsertionPoint(a, c, element, j) ==
    IF j >= 1 /\ comparefn(c, a[j], element) > 0
    THEN InsertionPoint(a, c, element, j - 1)
    ELSE j + 1

\* insertion sort, used for short arrays by V8 before 7.0 and by SpiderMonkey
RECURSIVE InsertionSort(_, _, _)
InsertionSort(a, c, i) ==
    IF i > Len(a) THEN a
    ELSE InsertionSort(MoveDown(a, i, InsertionPoint(a, c, a[i], i - 1)), c, i + 1)

\* CountAndMakeRun of V8's TimSort: the length of the run that starts the
\* array; idx is the next position to look at, descending the kind of run
RECURSIVE RunLength(_, _, _, _)
RunLength(a, c, idx, isDescending) ==
    IF idx > Len(a) THEN Len(a)
    ELSE LET order == comparefn(c, a[idx], a[idx - 1])
         IN  IF (isDescending /\ order >= 0) \/ (~isDescending /\ order < 0)
             THEN idx - 1
             ELSE RunLength(a, c, idx + 1, isDescending)

\* a with its first n elements reversed
ReverseRange(a, n) ==
    [k \in 1..Len(a) |-> IF k <= n THEN a[n + 1 - k] ELSE a[k]]

\* binary search of BinaryInsertionSort: left and right are 0-based as in
\* the host code; the result is the 0-based slot for pivot
RECURSIVE BinarySlot(_, _, _, _, _)
BinarySlot(a, c, pivot, left, right) ==
    IF left < right
    THEN LET mid   == left + ((right - left) \div 2)
             order == comparefn(c, pivot, a[mid + 1])
         IN  IF order < 0
             THEN BinarySlot(a, c, pivot, left, mid)
             ELSE BinarySlot(a, c, pivot, mid + 1, right)
    ELSE left

\* BinaryInsertionSort of V8's TimSort: a[1 .. start-1] is sorted, the rest
\* is inserted one by one
RECURSIVE BinaryInsertionSort(_, _, _)
BinaryInsertionSort(a, c, start) ==
    IF start > Len(a) THEN a
    ELSE BinaryInsertionSort(
             MoveDown(a, start, BinarySlot(a, c, a[start], 0, start - 1) + 1),
             c, start + 1)

\* V8 7.0 and later: for arrays shorter than 64 the minimum run length is the
\* whole array, so one run is counted (reversed if descending) and the rest
\* is inserted into it
TimSort(a, c) ==
    LET isDescending == comparefn(c, a[2], a[1]) < 0
        runLength    == RunLength(a, c, 3, isDescending)
        run          == IF isDescending THEN ReverseRange(a, runLength) ELSE a
    IN  BinaryInsertionSort(run, c, runLength + 1)

Engines == {"insertion", "timsort"}

\* set.sort( comparefn ) on the host e; arrays of fewer than two elements
\* are returned as they are without a call of comparefn
HostSort(e, a, c) ==
    IF Len(a) < 2 THEN a
    ELSE IF e = "insertion" THEN InsertionSort(a, c, 2)
    ELSE TimSort(a, c)

-----------------------------------------------------------------------------
(* QuantumSet: methods that read the backing array *)

\* QuantumSet.prototype.monotonic: the array it returns, a sorted copy
\* ( this._set.slice() ) of the backing array s
monotonic(e, s, c) == HostSort(e, s, c)

RECURSIVE Sweep(_, _, _, _)

\* a sweep that returns without pushing the last accumulator
SweepDropsLast(set, i, q, out) ==
    IF i > Len(set) THEN out
    ELSE LET m == merge(q, set[i])
             n == Len(m) - 1
         IN  Sweep(set, i + 1, m[n + 1], IF n # 0 THEN Append(out, m[1]) ELSE out)

\* the for loop of QuantumSet.prototype.disjoint with the final push: i is the
\* 1-based index of the next element, q the accumulator, out the local _set
Sweep(set, i, q, out) ==
    IF i > Len(set) THEN Append(out, q)
    ELSE LET m == merge(q, set[i])
             n == Len(m) - 1
         IN  Sweep(set, i + 1, m[n + 1], IF n # 0 THEN Append(out, m[1]) ELSE out)

\* a disjoint that returns an empty array for an empty collection
disjointOfNoneIsNone(e, s, mono) ==
    LET set == IF ~mono THEN monotonic(e, s, "default") ELSE s
    IN  IF Len(set) = 0 THEN <<>> ELSE Sweep(set, 2, set[1], <<>>)

\* a disjoint that sorts whatever mono says
disjointAlwaysSorts(e, s, mono) ==
    LET set == monotonic(e, s, "default")
        q   == IF Len(set) = 0 THEN Undefined ELSE set[1]
    IN  Sweep(set, 2, q, <<>>)

\* QuantumSet.prototype.disjoint: the array it returns for the backing array s;
\* set[ 0 ] of an empty array is undefined
disjoint(e, s, mono) ==
    LET set == IF ~mono THEN monotonic(e, s, "default") ELSE s
        q   == IF Len(set) = 0 THEN Undefined ELSE set[1]
    IN  Sweep(set, 2, q, <<>>)

\* Quantum.prototype.millis
duration(q) == q.stop - q.start

\* the loop of QuantumSet.prototype.millis from index i (1-based) on
RECURSIVE millisLoop(_, _, _)
millisLoop(s, i, total) ==
    IF i > Len(s) THEN total
    ELSE millisLoop(s, i + 1, total + duration(s[i]))

\* a total_ms that misses the first element
millisFromSecond(s) == millisLoop(s, 2, 0)

\* QuantumSet.prototype.millis for the backing array s
millis(s) == millisLoop(s, 1, 0)

\* no disjoint call is running
NoLocals == [pc |-> "idle"]

\* an array that holds Quantums only
IsQuantumArray(a) == \A i \in 1..Len(a) : a[i] \in AnyQuanta

-----------------------------------------------------------------------------
(* The caller's operations on one QuantumSet *)

\* new QuantumSet( args ): the elements of args are pushed onto a new array
Init ==
    /\ engine \in Engines
    /\ thrown = FALSE
    /\ locals = NoLocals
    /\ pre = <<>>
    /\ \E args \in Arrays(Quanta, MaxLen) :
          /\ _set = args
          /\ arg = args
    /\ ret = Undefined
    /\ aliased = FALSE
    /\ op = "new"

\* a push that skips the Quantums the collection already holds
CallPushUnique(args) ==
    /\ Len(_set) + Len(args) <= MaxLen
    /\ _set' = _set \o SelectSeq(args, LAMBDA q : \A i \in 1..Len(_set) : _set[i] # q)
    /\ ret' = Undefined
    /\ aliased' = FALSE
    /\ op' = "push"
    /\ arg' = args
    /\ pre' = _set
    /\ thrown' = FALSE
    /\ UNCHANGED <<locals, engine>>

\* push( args )
CallPush(args) ==
    /\ Len(_set) + Len(args) <= MaxLen
    /\ _set' = _set \o args
    /\ ret' = Undefined
    /\ aliased' = FALSE
    /\ op' = "push"
    /\ arg' = args
    /\ pre' = _set
    /\ thrown' = FALSE
    /\ UNCHANGED <<locals, engine>>

\* monotonic that sorts the backing array itself and returns it
CallMonotonicInPlace(c) ==
    /\ _set' = monotonic(engine, _set, c)
    /\ ret' = _set'
    /\ aliased' = TRUE
    /\ op' = "monotonic"
    /\ arg' = c
    /\ pre' = _set
    /\ thrown' = FALSE
    /\ UNCHANGED <<locals, engine>>

\* monotonic( compare ): c = "default" is the call without an argument
CallMonotonic(c) ==
    /\ ret' = monotonic(engine, _set, c)
    /\ aliased' = FALSE
    /\ op' = "monotonic"
    /\ arg' = c
    /\ pre' = _set
    /\ thrown' = FALSE
    /\ UNCHANGED <<_set, locals, engine>>

\* a set() that hands out a copy of the backing array
CallGetCopies ==
    /\ ret' = _set
    /\ aliased' = FALSE
    /\ op' = "get"
    /\ arg' = <<>>
    /\ pre' = _set
    /\ thrown' = FALSE
    /\ UNCHANGED <<_set, locals, engine>>

\* set() without an argument: returns this._set itself
CallGet ==
    /\ ret' = _set
    /\ aliased' = TRUE
    /\ op' = "get"
    /\ arg' = <<>>
    /\ pre' = _set
    /\ thrown' = FALSE
    /\ UNCHANGED <<_set, locals, engine>>

\* the calls that return an array
ArrayCalls == {"monotonic", "get", "set", "disjoint", "merge"}

\* a set( set ) that keeps the previous elements in front of the new ones
CallSetAppends(set) ==
    /\ IsQuantumArray(set)
    /\ _set' = _set \o set
    /\ ret' = _set \o set
    /\ aliased' = TRUE
    /\ op' = "set"
    /\ arg' = set
    /\ pre' = _set
    /\ thrown' = FALSE
    /\ UNCHANGED <<locals, engine>>

\* set( set ) with an array, which is truthy even when empty: the caller's
\* array becomes the backing array and is returned
CallSet(set) ==
    /\ IsQuantumArray(set)
    /\ _set' = set
    /\ ret' = set
    /\ aliased' = TRUE
    /\ op' = "set"
    /\ arg' = set
    /\ pre' = _set
    /\ thrown' = FALSE
    /\ UNCHANGED <<locals, engine>>

\* disjoint that installs its result as the backing array
CallDisjointInstalls(mono) ==
    /\ ret' = disjoint(engine, _set, mono)
    /\ _set' = ret'
    /\ aliased' = TRUE
    /\ op' = "disjoint"
    /\ arg' = mono
    /\ pre' = _set
    /\ thrown' = FALSE
    /\ UNCHANGED <<locals, engine>>

\* disjoint( mono ): the result is a new array
CallDisjoint(mono) ==
    /\ ret' = disjoint(engine, _set, mono)
    /\ aliased' = FALSE
    /\ op' = "disjoint"
    /\ arg' = mono
    /\ pre' = _set
    /\ thrown' = FALSE
    /\ UNCHANGED <<_set, locals, engine>>

\* millis()
CallMillis ==
    /\ ret' = millis(_set)
    /\ aliased' = FALSE
    /\ op' = "millis"
    /\ arg' = <<>>
    /\ pre' = _set
    /\ thrown' = FALSE
    /\ UNCHANGED <<_set, locals, engine>>

Next ==
    \/ \E args \in Arrays(Quanta, MIN(MaxPush, MaxLen - Len(_set))) : CallPush(args)
    \/ \E c \in Comparators : CallMonotonic(c)
    \/ CallGet
    \/ (op \in ArrayCalls /\ CallSet(ret))
    \/ CallSet(<<>>)
    \/ \E mono \in BOOLEAN : CallDisjoint(mono)
    \/ CallMillis

Spec == Init /\ [][Next]_vars

-----------------------------------------------------------------------------
(* The pure methods called on pairs of Quantums, start > stop included *)

\* new QuantumSet() without an argument
InitEmpty ==
    /\ engine \in Engines
    /\ thrown = FALSE
    /\ locals = NoLocals
    /\ pre = <<>>
    /\ _set = <<>>
    /\ arg = <<>>
    /\ ret = Undefined
    /\ aliased = FALSE
    /\ op = "new"

\* compare( q1, q2 )
CallCompare(q1, q2) ==
    /\ ret' = compare(q1, q2)
    /\ aliased' = FALSE
    /\ op' = "compare"
    /\ arg' = <<q1, q2>>
    /\ pre' = _set
    /\ thrown' = FALSE
    /\ UNCHANGED <<_set, locals, engine>>

\* intersects( q1, q2 )
CallIntersects(q1, q2) ==
    /\ ret' = intersects(q1, q2)
    /\ aliased' = FALSE
    /\ op' = "intersects"
    /\ arg' = <<q1, q2>>
    /\ pre' = _set
    /\ thrown' = FALSE
    /\ UNCHANGED <<_set, locals, engine>>

\* merge( q1, q2 ): the result is a new array
CallMerge(q1, q2) ==
    /\ ret' = merge(q1, q2)
    /\ aliased' = FALSE
    /\ op' = "merge"
    /\ arg' = <<q1, q2>>
    /\ pre' = _set
    /\ thrown' = FALSE
    /\ UNCHANGED <<_set, locals, engine>>

NextPair ==
    \/ \E q1, q2 \in AnyQuanta : CallCompare(q1, q2)
    \/ \E q1, q2 \in AnyQuanta : CallIntersects(q1, q2)
    \/ \E q1, q2 \in AnyQuanta : CallMerge(q1, q2)

SpecPair == InitEmpty /\ [][NextPair]_vars

-----------------------------------------------------------------------------
(* Notions the properties are stated in *)

\* ordered non-decreasing by start
Monotone(a) == \A i \in 1..(Len(a) - 1) : a[i].start <= a[i + 1].start

\* no element intersects its successor
NoAdjacentIntersect(a) == \A i \in 1..(Len(a) - 1) : ~intersects(a[i], a[i + 1])

AllWellFormed(a) == \A i \in 1..Len(a) : WellFormed(a[i])

\* The points of the time axis covered by the closed intervals of a.  Bounds
\* are integers, so the union of the intervals is known from the instants and
\* the midpoints between two instants: point p stands for the time p / 2.
Covered(a) ==
    {p \in 0..(2 * MaxTime) : \E i \in 1..Len(a) : 2 * a[i].start <= p /\ p <= 2 * a[i].stop}

\* the connected component of the point set P that begins at point p
ComponentFrom(P, p) ==
    LET last == CHOOSE e \in P : e >= p /\ (\A x \in p..e : x \in P) /\ (e + 1) \notin P
    IN  Quantum(p \div 2, last \div 2)

\* the connected components of P whose first point is at least from, in
\* increasing order
RECURSIVE ComponentsFrom(_, _)
ComponentsFrom(P, from) ==
    LET begins == {p \in P : p >= from /\ (p - 1) \notin P}
    IN  IF begins = {} THEN <<>>
        ELSE LET p == CHOOSE x \in begins : \A y \in begins : x <= y
             IN  <<ComponentFrom(P, p)>> \o ComponentsFrom(P, p + 1)

\* the maximal connected components of the union of a, by increasing start
Components(a) == ComponentsFrom(Covered(a), 0)

\* b holds the elements of a, each as often as a does
IsPermutation(a, b) ==
    /\ Len(a) = Len(b)
    /\ \A q \in AnyQuanta :
          Cardinality({i \in 1..Len(a) : a[i] = q}) = Cardinality({i \in 1..Len(b) : b[i] = q})

\* the call disjoint() or disjoint( false ) has returned for a non-empty
\* backing array of well-formed Quantums
DisjointReturned ==
    /\ op = "disjoint"
    /\ arg = FALSE
    /\ pre # <<>>
    /\ AllWellFormed(pre)

-----------------------------------------------------------------------------
(* Properties *)

\* C1 Disjointness: after disjoint() on a non-empty collection of well-formed
\* Quantums, no element of the returned array intersects its successor.
C1_Disjointness == DisjointReturned => NoAdjacentIntersect(ret)

\* C2 Coverage conservation: after disjoint() on a non-empty collection of
\* well-formed Quantums, a point of the time axis lies in an element of the
\* returned array if and only if it lies in an element of the backing array.
C2_CoverageConservation == DisjointReturned => Covered(ret) = Covered(pre)

\* C2 witness: a sweep that both merged and emitted
C2_Witness ==
    /\ DisjointReturned
    /\ Len(ret) = 2
    /\ Len(pre) = 3
    /\ ~Monotone(pre)

\* C3 Minimal ordered cover: disjoint() returns the maximal connected
\* components of the union of the backing array, one Quantum each, in
\* increasing order of start (so no disjoint cover has fewer elements).
C3_MinimalOrderedCover == DisjointReturned => ret = Components(pre)

\* C4 Monotonicity: the array monotonic() returns when called without a
\* comparator is ordered non-decreasing by start.
C4_Monotonicity == (op = "monotonic" /\ arg = "default") => Monotone(ret)

\* C5 monotonic() is a read-only snapshot: a call of monotonic, with or
\* without a comparator, leaves the backing array as it was and returns
\* another array that is a permutation of it.
C5_SortedIsSnapshot ==
    (op = "monotonic") => (_set = pre /\ ~aliased /\ IsPermutation(ret, pre))

\* C5 witness: monotonic returned an order that differs from the backing array
C5_Witness ==
    /\ op = "monotonic"
    /\ ret # pre
    /\ Len(pre) = 3

\* the arrays disjoint() can have returned for a non-empty array of
\* well-formed Quantums on this host
DisjointResults ==
    {disjoint(engine, s, FALSE) : s \in Arrays(Quanta, MaxLen) \ {<<>>}}

\* C6 Idempotence of disjoint-cover: when the non-empty backing array is
\* ordered by start with no adjacent intersection, disjoint( mono ) returns an
\* array equal to it for either value of mono; when the backing array holds
\* a previous disjoint() result, disjoint() returns an array equal to it.
C6_Idempotence ==
    (op = "disjoint" /\ pre # <<>> /\ AllWellFormed(pre)) =>
        /\ (Monotone(pre) /\ NoAdjacentIntersect(pre)) => ret = pre
        /\ (pre \in DisjointResults) => ret = pre

C8_IntersectsSymmetric == (op = "intersects") => ret = intersects(arg[2], arg[1])

\* C8 witness: a pair that intersects by the second disjunct only, one of
\* the two with start > stop
C8_Witness ==
    /\ op = "intersects"
    /\ ret = TRUE
    /\ arg[1].start > arg[2].start
    /\ ~WellFormed(arg[1])

\* C9 Closed-interval semantics: for well-formed a and b, intersects( a, b )
\* is true exactly when the closed intervals share an instant, that is when
\* max of starts <= min of stops.
C9_ClosedIntervals ==
    (op = "intersects" /\ WellFormed(arg[1]) /\ WellFormed(arg[2])) =>
        LET a == arg[1]
            b == arg[2]
            lo == IF a.start >= b.start THEN a.start ELSE b.start
            hi == IF a.stop <= b.stop THEN a.stop ELSE b.stop
        IN  /\ ret = (lo <= hi)
            /\ ret = (\E t \in Time : a.start <= t /\ t <= a.stop /\ b.start <= t /\ t <= b.stop)

\* C9 witness: a single instant touching the start of the other Quantum
C9_Witness ==
    /\ op = "intersects"
    /\ ret = TRUE
    /\ arg[1].start = arg[1].stop
    /\ arg[1].stop = arg[2].start
    /\ arg[2].start < arg[2].stop

MaxAnyLen == 2

InitAny ==
    /\ engine \in Engines
    /\ thrown = FALSE
    /\ locals = NoLocals
    /\ pre = <<>>
    /\ \E args \in Arrays(AnyQuanta, MaxAnyLen) :
          /\ _set = args
          /\ arg = args
    /\ ret = Undefined
    /\ aliased = FALSE
    /\ op = "new"

NextAny ==
    \/ \E args \in Arrays(AnyQuanta, MIN(MaxPush, MaxAnyLen - Len(_set))) : CallPush(args)
    \/ \E c \in Comparators : CallMonotonic(c)
    \/ CallGet
    \/ (op \in ArrayCalls /\ CallSet(ret))
    \/ CallSet(<<>>)
    \/ \E mono \in BOOLEAN : CallDisjoint(mono)
    \/ CallMillis

SpecAny == InitAny /\ [][NextAny]_vars

(***************************************************************************)
(* Durations                                                               *)
(***************************************************************************)

\* how many elements of a cover the unit of time from t to t + 1
CoverCount(a, t) ==
    Cardinality({i \in 1..Len(a) : a[i].start <= t /\ t + 1 <= a[i].stop})

\* the length of the union of the intervals of a
UnionLength(a) == Cardinality({t \in 0..(MaxTime - 1) : CoverCount(a, t) > 0})

\* the time counted more than once when the durations of a are added up
RECURSIVE OverlapFrom(_, _)
OverlapFrom(a, t) ==
    IF t >= MaxTime THEN 0
    ELSE (IF CoverCount(a, t) > 1 THEN CoverCount(a, t) - 1 ELSE 0)
         + OverlapFrom(a, t + 1)

OverlapLength(a) == OverlapFrom(a, 0)

RECURSIVE SumOfStarts(_)
SumOfStarts(a) == IF a = <<>> THEN 0 ELSE Head(a).start + SumOfStarts(Tail(a))

RECURSIVE SumOfStops(_)
SumOfStops(a) == IF a = <<>> THEN 0 ELSE Head(a).stop + SumOfStops(Tail(a))

\* the caller has just installed what disjoint() returns for the array pre
CoverInstalled ==
    /\ op = "set"
    /\ pre # <<>>
    /\ AllWellFormed(pre)
    /\ _set = disjoint(engine, pre, FALSE)

\* C11: once the result of disjoint() on a non-empty collection of
\* well-formed Quantums is installed with set, millis() is the length of the
\* union of the original intervals, is never more than millis() of the
\* original collection, and is less than it by exactly the overlap removed.
C11_CoveredDuration ==
    CoverInstalled =>
        /\ millis(_set) = UnionLength(pre)
        /\ millis(_set) <= millis(pre)
        /\ millis(pre) - millis(_set) = OverlapLength(pre)

Elements(a) == {a[i] : i \in 1..Len(a)}

\* C13: push appends: the backing array afterwards is the array as it was
\* followed by the pushed Quantums in the order given, so its length grows by
\* the number of pushed Quantums and a Quantum already present is stored
\* again; a collection constructed from an array holds exactly that array's
\* Quantums in order.
C13_PushAppends ==
    /\ op = "push" =>
          /\ Len(_set) = Len(pre) + Len(arg)
          /\ \A i \in 1..Len(pre) : _set[i] = pre[i]
          /\ \A j \in 1..Len(arg) : _set[Len(pre) + j] = arg[j]
    /\ op = "new" =>
          /\ Len(_set) = Len(arg)
          /\ \A j \in 1..Len(arg) : _set[j] = arg[j]

\* a Quantum the collection already holds has been pushed once more
C13_Witness ==
    /\ op = "push"
    /\ pre # <<>>
    /\ Len(arg) = 2
    /\ arg[1] \in Elements(pre)
    /\ arg[2] \notin Elements(pre)

\* C14: set with an array makes that array the backing array, with nothing
\* of the previous content kept, and returns it; set without an argument
\* returns the backing array and leaves it as it was.
C14_SetReplacesGetReads ==
    /\ op = "set" =>
          /\ _set = arg
          /\ ret = arg
    /\ op = "get" =>
          /\ _set = pre
          /\ ret = pre

\* set has replaced three Quantums by one that was not among them
C14_Witness ==
    /\ op = "set"
    /\ Len(pre) = 3
    /\ Len(_set) = 1
    /\ _set[1] \notin Elements(pre)


(***************************************************************************)
(* The comparator and the order of what merge returns                      *)
(***************************************************************************)

\* C15: compare( a, b ) is true exactly when the start of a is at or after
\* the start of b, whatever the stops are, so for every pair at least one of
\* compare( a, b ) and compare( b, a ) is true.
C15_CompareByStart ==
    op = "compare" =>
        /\ ret = ~(arg[1].start < arg[2].start)
        /\ \A stop1, stop2 \in Time :
              compare(Quantum(arg[1].start, stop1), Quantum(arg[2].start, stop2)) = ret
        /\ (ret \/ compare(arg[2], arg[1]))

\* compare is true for two Quantums with one start and different stops
C15_Witness ==
    /\ op = "compare"
    /\ arg[1].start = arg[2].start
    /\ arg[1].stop < arg[2].stop
    /\ ret = TRUE

\* C19: merge returns one or two Quantums, and what it returns is ordered
\* by start, non-decreasing, for every pair in either order.
C19_MergeMonotone ==
    op = "merge" =>
        /\ Len(ret) \in {1, 2}
        /\ Monotone(ret)


(***************************************************************************)
(* disjoint on an empty collection                                         *)
(***************************************************************************)

\* disjoint has returned from a call on an empty collection
DisjointOfEmpty == op = "disjoint" /\ pre = <<>>

\* C16: disjoint() on an empty collection fails: the call ends with an
\* exception raised at the read of the first element and returns nothing.
C16_EmptyFaults == DisjointOfEmpty => thrown

\* C16, as the code behaves: disjoint() on an empty collection raises
\* nothing; it returns an array of one element, and that element is the
\* undefined value read at index 0, not a Quantum.
C16_EmptyReturnsUndefined ==
    DisjointOfEmpty =>
        /\ ~thrown
        /\ Len(ret) = 1
        /\ ret[1] = Undefined

\* disjoint( true ) has returned normally from a call on an empty collection
C16_Witness == DisjointOfEmpty /\ arg = TRUE /\ ~thrown /\ ret # <<>>


(***************************************************************************)
(* The mono argument of disjoint                                           *)
(***************************************************************************)

\* disjoint has returned for a non-empty backing array of well-formed
\* Quantums that is ordered by start
DisjointOfSorted ==
    /\ op = "disjoint"
    /\ pre # <<>>
    /\ AllWellFormed(pre)
    /\ Monotone(pre)

HoldingCalls == {"new", "push", "monotonic", "get", "set", "disjoint", "caller"}

\* the array the caller holds after the last call
Held == IF op \in {"new", "push"} THEN arg ELSE ret

\* the caller removes the last element of the array it holds ( pop ); when
\* that array is the backing array, this._set loses the element too
CallerPops ==
    /\ op \in HoldingCalls
    /\ Held # <<>>
    /\ ret' = SubSeq(Held, 1, Len(Held) - 1)
    /\ _set' = IF aliased THEN SubSeq(Held, 1, Len(Held) - 1) ELSE _set
    /\ aliased' = aliased
    /\ op' = "caller"
    /\ arg' = <<>>
    /\ pre' = _set
    /\ thrown' = FALSE
    /\ UNCHANGED <<locals, engine>>

NextAlias ==
    \/ Next
    \/ CallerPops

SpecAlias == Init /\ [][NextAlias]_vars

\* C18: the collection owns its backing array alone: whatever array the
\* caller holds after constructor, push, set, monotonic and disjoint calls, a
\* change the caller makes to it changes neither the elements of the
\* collection nor its millis().
C18_ExclusiveOwnership ==
    op = "caller" =>
        /\ _set = pre
        /\ millis(_set) = millis(pre)

\* C18, as the code behaves: the array passed to set and the array returned
\* by set, with or without argument, is the backing array itself, and a
\* change the caller makes to it is a change of the collection; the array
\* passed to the constructor or to push and the arrays returned by monotonic
\* and disjoint are not the backing array, and a change to them leaves the
\* elements and millis() of the collection as they were.
C18_OwnershipByCall ==
    /\ op \in {"new", "push", "monotonic", "disjoint"} => ~aliased
    /\ op \in {"get", "set"} => (aliased /\ ret = _set)
    /\ op = "caller" =>
          IF aliased
          THEN /\ _set = ret
               /\ Len(_set) = Len(pre) - 1
          ELSE /\ _set = pre
               /\ millis(_set) = millis(pre)

\* the caller has removed an element from the array set() returned, and
\* the collection has lost it and its duration
C18_Witness ==
    /\ op = "caller"
    /\ aliased
    /\ _set # pre
    /\ millis(_set) < millis(pre)


(***************************************************************************)
(* disjoint, one loop iteration at a time                                  *)
(*                                                                         *)
(* locals holds the local variables of the running call: set, q, i, k as   *)
(* in the source ( i counts from 1: i elements of set are processed ),     *)
(* emitted for the local array _set, and as history merges, the argument   *)
(* pairs of the merge calls so far, and before, the content of emitted     *)
(* before the last step.                                                   *)
(***************************************************************************)

\* disjoint( mono ) is entered: set, _set = [], q = set[ 0 ], k = set.length
DisjointEnter(mono) ==
    /\ locals.pc \in {"idle", "done"}
    /\ LET set == IF ~mono THEN monotonic(engine, _set, "default") ELSE _set
       IN  locals' = [pc      |-> "loop",
                      mono    |-> mono,
                      set     |-> set,
                      emitted |-> <<>>,
                      q       |-> IF Len(set) = 0 THEN Undefined ELSE set[1],
                      i       |-> 1,
                      k       |-> Len(set),
                      merges  |-> <<>>,
                      before  |-> <<>>]
    /\ UNCHANGED <<_set, ret, aliased, op, arg, pre, thrown, engine>>

\* an iteration that goes on with the first Quantum of what merge returns
DisjointIterateKeepsFirst ==
    /\ locals.pc = "loop"
    /\ locals.i < locals.k
    /\ LET m == merge(locals.q, locals.set[locals.i + 1])
           n == Len(m) - 1
       IN  locals' = [locals EXCEPT
                         !.emitted = IF n # 0 THEN Append(@, m[1]) ELSE @,
                         !.q       = m[1],
                         !.i       = @ + 1,
                         !.merges  = Append(@, <<locals.q, locals.set[locals.i + 1]>>),
                         !.before  = locals.emitted]
    /\ UNCHANGED <<_set, ret, aliased, op, arg, pre, thrown, engine>>

\* one iteration of the for loop: $set = merge( q, set[ i ] ), the first of
\* two Quantums is emitted, q becomes the last one
DisjointIterate ==
    /\ locals.pc = "loop"
    /\ locals.i < locals.k
    /\ LET m == merge(locals.q, locals.set[locals.i + 1])
           n == Len(m) - 1
       IN  locals' = [locals EXCEPT
                         !.emitted = IF n # 0 THEN Append(@, m[1]) ELSE @,
                         !.q       = m[n + 1],
                         !.i       = @ + 1,
                         !.merges  = Append(@, <<locals.q, locals.set[locals.i + 1]>>),
                         !.before  = locals.emitted]
    /\ UNCHANGED <<_set, ret, aliased, op, arg, pre, thrown, engine>>

\* the loop is over: _set.push( q ); return _set
DisjointReturn ==
    /\ locals.pc = "loop"
    /\ locals.i >= locals.k
    /\ locals' = [locals EXCEPT
                     !.pc      = "done",
                     !.emitted = Append(@, locals.q),
                     !.before  = locals.emitted]
    /\ ret' = Append(locals.emitted, locals.q)
    /\ aliased' = FALSE
    /\ op' = "disjoint"
    /\ arg' = locals.mono
    /\ pre' = _set
    /\ thrown' = FALSE
    /\ UNCHANGED <<_set, engine>>

NextSweep ==
    \/ \E mono \in BOOLEAN : DisjointEnter(mono)
    \/ DisjointIterate
    \/ DisjointReturn

SpecSweep == Init /\ [][NextSweep]_vars

\* a is the beginning of b
IsPrefix(a, b) == Len(a) <= Len(b) /\ \A j \in 1..Len(a) : b[j] = a[j]

\* a disjoint call is under way, or done, on a non-empty array of
\* well-formed Quantums ordered by start
SweepOfSorted ==
    /\ locals.pc \in {"loop", "done"}
    /\ locals.set # <<>>
    /\ AllWellFormed(locals.set)
    /\ Monotone(locals.set)

\* C20: while disjoint sweeps well-formed Quantums ordered by start, after
\* i elements the emitted Quantums followed by the accumulator q are the
\* disjoint cover of the first i elements, every emitted Quantum stops
\* before q starts, what was emitted before the last step is still the
\* beginning of what is emitted, and merge has been called i - 1 times, the
\* j-th call with element j + 1; at the end merge has been called n - 1
\* times and the accumulator is emitted last.
C20_SweepInvariant ==
    /\ (SweepOfSorted /\ locals.pc = "loop") =>
          /\ locals.i \in 1..locals.k
          /\ Append(locals.emitted, locals.q) = Components(SubSeq(locals.set, 1, locals.i))
          /\ \A j \in 1..Len(locals.emitted) : locals.emitted[j].stop < locals.q.start
    /\ SweepOfSorted =>
          /\ IsPrefix(locals.before, locals.emitted)
          /\ Len(locals.merges) = locals.i - 1
          /\ \A j \in 1..Len(locals.merges) : locals.merges[j][2] = locals.set[j + 1]
    /\ (SweepOfSorted /\ locals.pc = "done") =>
          /\ locals.i = locals.k
          /\ locals.emitted = Append(locals.before, locals.q)
          /\ locals.emitted = Components(locals.set)
          /\ ret = locals.emitted

\* a sweep over three Quantums has ended with two emitted, the first of
\* them merged from the first two elements
C20_Witness ==
    /\ SweepOfSorted
    /\ locals.pc = "done"
    /\ locals.k = 3
    /\ Len(locals.merges) = 2
    /\ Len(locals.emitted) = 2
    /\ locals.emitted[1] # locals.set[1]


(***************************************************************************)
(* The earlier versions of intersect, merge and disjoint                   *)
(*                                                                         *)
(* _000 marks the methods of part_000 and _js those of quantum.js.  Both   *)
(* name the test intersect; both take the start of a merged Quantum from   *)
(* q1.  quantum.js tests one direction only, sorts the backing array       *)
(* itself and makes it the new this._set.                                  *)
(***************************************************************************)

\* part_000: QuantumSet.prototype.intersect
intersect_000(q1, q2) ==
    LET q1a == q1.start
        q1B == q1.stop
        q2a == q2.start
        q2B == q2.stop
    IN  ((q1a <= q2a) /\ (q1B >= q2a)) \/ ((q2a <= q1a) /\ (q2B >= q1a))

\* part_000: QuantumSet.prototype.merge
merge_000(q1, q2) ==
    IF intersect_000(q1, q2)
    THEN <<Quantum(q1.start, MAX(q1.stop, q2.stop))>>
    ELSE <<q1, q2>>

\* part_000: the for loop and the final push of disjoint
RECURSIVE Sweep_000(_, _, _, _)
Sweep_000(set, i, q, out) ==
    IF i > Len(set) THEN Append(out, q)
    ELSE LET m == merge_000(q, set[i])
             n == Len(m) - 1
         IN  Sweep_000(set, i + 1, m[n + 1], IF n # 0 THEN Append(out, m[1]) ELSE out)

\* part_000: QuantumSet.prototype.disjoint; monotonic is that of part_001
disjoint_000(e, s, mono) ==
    LET set == IF ~mono THEN monotonic(e, s, "default") ELSE s
        q   == IF Len(set) = 0 THEN Undefined ELSE set[1]
    IN  Sweep_000(set, 2, q, <<>>)

\* quantum.js: QuantumSet.prototype.intersect
intersect_js(q1, q2) ==
    LET q1a == q1.start
        q1B == q1.stop
        q2a == q2.start
    IN  (q1a <= q2a) /\ (q1B >= q2a)

\* a merge that takes the start of the merged Quantum from q2
merge_jsSecondStart(q1, q2) ==
    IF intersect_js(q1, q2)
    THEN <<Quantum(q2.start, MAX(q1.stop, q2.stop))>>
    ELSE <<q1, q2>>

\* quantum.js: QuantumSet.prototype.merge
merge_js(q1, q2) ==
    IF intersect_js(q1, q2)
    THEN <<Quantum(q1.start, MAX(q1.stop, q2.stop))>>
    ELSE <<q1, q2>>

\* quantum.js: the for loop and the final push of disjoint
RECURSIVE Sweep_js(_, _, _, _)
Sweep_js(set, i, q, out) ==
    IF i > Len(set) THEN Append(out, q)
    ELSE LET m == merge_js(q, set[i])
             n == Len(m) - 1
         IN  Sweep_js(set, i + 1, m[n + 1], IF n # 0 THEN Append(out, m[1]) ELSE out)

\* quantum.js: QuantumSet.prototype.monotonic sorts this._set itself
monotonic_js(e, s, c) == HostSort(e, s, c)

\* quantum.js: what this._set is after disjoint( mono )
backing_js(e, s, mono) == IF ~mono THEN monotonic_js(e, s, "default") ELSE s

\* quantum.js: QuantumSet.prototype.disjoint, the array it returns
disjoint_js(e, s, mono) ==
    LET set == backing_js(e, s, mono)
        q   == IF Len(set) = 0 THEN Undefined ELSE set[1]
    IN  Sweep_js(set, 2, q, <<>>)

\* part_000: disjoint( mono )
CallDisjoint_000(mono) ==
    /\ ret' = disjoint_000(engine, _set, mono)
    /\ aliased' = FALSE
    /\ op' = "disjoint_000"
    /\ arg' = mono
    /\ pre' = _set
    /\ thrown' = FALSE
    /\ UNCHANGED <<_set, locals, engine>>

\* quantum.js: disjoint( mono )
CallDisjoint_js(mono) ==
    /\ _set' = backing_js(engine, _set, mono)
    /\ ret' = disjoint_js(engine, _set, mono)
    /\ aliased' = FALSE
    /\ op' = "disjoint_js"
    /\ arg' = mono
    /\ pre' = _set
    /\ thrown' = FALSE
    /\ UNCHANGED <<locals, engine>>

\* disjoint of part_001 runs step by step on a new collection; when it has
\* returned, the earlier versions are called with the same argument
NextLegacy ==
    \/ (op = "new" /\ \E mono \in BOOLEAN : DisjointEnter(mono))
    \/ DisjointIterate
    \/ DisjointReturn
    \/ (op = "disjoint" /\ locals.pc = "done" /\ CallDisjoint_000(locals.mono))
    \/ (op = "disjoint" /\ locals.pc = "done" /\ CallDisjoint_js(locals.mono))

SpecLegacy == Init /\ [][NextLegacy]_vars

\* an earlier version of disjoint has returned
LegacyReturned == op \in {"disjoint_000", "disjoint_js"}

\* C21: on a non-empty array of well-formed Quantums ordered by start the
\* sweep returns equal arrays with the intersects and merge of part_001,
\* with the intersect and merge of part_000 and with those of quantum.js,
\* and every merge call of the sweep gets an accumulator that starts no
\* later than the element.
C21_LegacySameCover ==
    SweepOfSorted =>
        /\ \A j \in 1..Len(locals.merges) :
              locals.merges[j][1].start <= locals.merges[j][2].start
        /\ LegacyReturned => ret = locals.emitted

\* quantum.js has swept three ordered Quantums, two of them with one start,
\* and has merged some
C21_Witness ==
    /\ op = "disjoint_js"
    /\ SweepOfSorted
    /\ locals.k = 3
    /\ locals.set[1].start = locals.set[2].start
    /\ locals.set[1].stop > locals.set[2].stop
    /\ Len(ret) = 2


(***************************************************************************)
(* The order of insertion                                                  *)
(***************************************************************************)

\* the arrays that hold the Quantums of a, each as often as a, in any order
Reorderings(a) == {s \in Arrays(Quanta, MaxLen) : IsPermutation(s, a)}

\* C22: the order of insertion does not matter: what disjoint() returns for
\* a non-empty collection of well-formed Quantums, it returns for every
\* collection that holds the same Quantums, each as often, in another order,
\* Quantums of equal start included.
C22_InsertionOrder ==
    DisjointReturned =>
        \A s \in Reorderings(pre) : disjoint(engine, s, FALSE) = ret


(***************************************************************************)
(* disjoint on Quantums that start after they stop                         *)
(***************************************************************************)

\* a collection constructed from any array of Quantums, start after stop
\* included
InitMalformed ==
    /\ engine \in Engines
    /\ thrown = FALSE
    /\ locals = NoLocals
    /\ pre = <<>>
    /\ \E args \in Arrays(AnyQuanta, MaxLen) :
          /\ _set = args
          /\ arg = args
    /\ ret = Undefined
    /\ aliased = FALSE
    /\ op = "new"

NextMalformed ==
    \/ CallMonotonic("default")
    \/ CallDisjoint(FALSE)

SpecMalformed == InitMalformed /\ [][NextMalformed]_vars

\* C23: for a non-empty collection that may hold Quantums with start after
\* stop, the array disjoint() returns is still ordered by start,
\* non-decreasing, and still has no element that intersects its successor.
C23_MalformedStillOrdered ==
    (op = "disjoint" /\ arg = FALSE /\ pre # <<>>) =>
        /\ Monotone(ret)
        /\ NoAdjacentIntersect(ret)

====
